---- MODULE Spec2Model ----
(***************************************************************************)
(* State machine of ethcore's Account record (ethcore/src/state/account.rs) *)
(* and of the stores it is a client of: the per-account storage trie, the   *)
(* hash-addressed code store and the bounded LRU read cache.                *)
(*                                                                          *)
(* Two account handles, "a" and "b", are held by the caller.  Every method  *)
(* of Account is one action on a handle; a method that panics (a failed     *)
(* assert!) leaves the record as it was and is recorded in `last`.          *)
(*                                                                          *)
(* Beside it, the snapshot watcher (ethcore/src/snapshot/watcher.rs): a     *)
(* Watcher, the client it asks for block numbers and sync status, and the   *)
(* IoChannel it sends TakeSnapshot messages on.                             *)
(***************************************************************************)
EXTENDS Integers, Sequences, FiniteSets, TLC

VARIABLES
  accounts,  \* handle -> Account record
  codeDb,    \* the code store: the byte strings inserted into it
  last,      \* the call made last and whether it returned or panicked
  hist       \* history of "a": the storage keys ever passed to set_storage,
             \* the keys whose non-zero committed value the last
             \* commit_storage replaced by zero, and the keys the trie
             \* failed for in the last commit_storage
VARIABLES
  watcher,   \* the Watcher: its period and history
  chain,     \* the client behind the watcher's oracle: the number of the
             \* best block, the sync status and the sizes of the queue
  channel    \* the IoChannel: connected or not, and the messages on it

vars == <<accounts, codeDb, last, hist, watcher, chain, channel>>

----------------------------------------------------------------------------
(* Bounds of the model *)

\* H256 words used as storage keys and storage values: 0..MaxH256
MaxH256 == 1

\* U256 balances and nonces: 0..MaxU256
MaxU256 == 1

\* code is a byte string of at most MaxCodeLen bytes, each in 1..MaxByte
MaxCodeLen == 2

MaxByte == 1

\* capacity of the LRU read cache. The source's constant is 4096; the model
\* scales it down so that eviction happens within the key space 0..MaxH256.
STORAGE_CACHE_ITEMS == 1

\* u64 block numbers, periods and histories: 0..MaxU64, with arithmetic
\* modulo MaxU64 + 1
MaxU64 == 4

\* at most MaxQueue blocks are unverified and at most MaxQueue verified
MaxQueue == 2

\* new_blocks is given at most MaxImported hashes
MaxImported == 2

\* at most MaxChannel messages wait on the channel
MaxChannel == 1

----------------------------------------------------------------------------
(* Value domains *)

Handles == {"a", "b"}

H256 == 0..MaxH256

U256 == 0..MaxU256

Bytes == 1..MaxByte

Codes == UNION {[1..n -> Bytes] : n \in 0..MaxCodeLen}

None == <<>>

Some(x) == <<x>>

IsSome(o) == o # <<>>

Unwrap(o) == o[1]

----------------------------------------------------------------------------
(* Library functions the record calls *)

RECURSIVE Sha3Fold(_, _)
Sha3Fold(bytes, i) ==
  IF i = 0 THEN 0 ELSE bytes[i] + (MaxByte + 1) * Sha3Fold(bytes, i - 1)

\* content hash of a byte string: an injective digest of the bytes
Sha3(bytes) == Sha3Fold(bytes, Len(bytes))

SHA3_EMPTY == Sha3(<<>>)

\* RLP payload of an unsigned integer: big-endian bytes, no leading zeros
\* (zero is the empty string)
RECURSIVE Encode(_)
Encode(v) == IF v = 0 THEN <<>> ELSE Append(Encode(v \div 256), v % 256)

RECURSIVE Decode(_)
Decode(bytes) ==
  IF bytes = <<>> THEN 0
  ELSE 256 * Decode(SubSeq(bytes, 1, Len(bytes) - 1)) + bytes[Len(bytes)]

\* a trie maps each key to None (absent) or Some(bytes)
EmptyTrie == [k \in H256 |-> None]

TrieInsert(t, k, bytes) == [t EXCEPT ![k] = Some(bytes)]

TrieRemove(t, k) == [t EXCEPT ![k] = None]

TrieGet(t, k) == t[k]

TrieDigit(t, k) == IF IsSome(t[k]) THEN 1 + Decode(Unwrap(t[k])) ELSE 0

RECURSIVE TrieRootFold(_, _)
TrieRootFold(t, k) ==
  IF k < 0 THEN 0 ELSE TrieDigit(t, k) + (MaxH256 + 2) * TrieRootFold(t, k - 1)

\* Merkle root of a trie: an injective digest of its contents
TrieRoot(t) == TrieRootFold(t, MaxH256)

\* the trie the store holds under a root: the one trie with that root
TrieAt(root) ==
  [k \in H256 |->
     LET digit == (root \div ((MaxH256 + 2) ^ (MaxH256 - k))) % (MaxH256 + 2)
     IN IF digit = 0 THEN None ELSE Some(Encode(digit - 1))]

SHA3_NULL_RLP == TrieRoot(EmptyTrie)

\* LruCache: a sequence of <<key, value>>, least recently used first
LruEmpty == <<>>

LruKeys(c) == {c[i][1] : i \in 1..Len(c)}

LruIndex(c, k) == CHOOSE i \in 1..Len(c) : c[i][1] = k

LruPeek(c, k) == IF k \in LruKeys(c) THEN Some(c[LruIndex(c, k)][2]) ELSE None

LruDrop(c, i) == SubSeq(c, 1, i - 1) \o SubSeq(c, i + 1, Len(c))

\* get_mut: a hit becomes the most recently used entry
LruTouch(c, k) ==
  IF k \in LruKeys(c)
  THEN Append(LruDrop(c, LruIndex(c, k)), c[LruIndex(c, k)])
  ELSE c

\* insert: the entry becomes the most recently used one, and the least
\* recently used entry is evicted when the capacity is exceeded
LruInsert(c, k, v) ==
  LET without == IF k \in LruKeys(c) THEN LruDrop(c, LruIndex(c, k)) ELSE c
      grown == Append(without, <<k, v>>)
  IN IF Len(grown) > STORAGE_CACHE_ITEMS THEN Tail(grown) ELSE grown

----------------------------------------------------------------------------
(* Account: constructors *)

Clean == "Clean"

Dirty == "Dirty"

new_basic(balance, nonce) ==
  [balance |-> balance, nonce |-> nonce, storage_root |-> SHA3_NULL_RLP,
   storage_cache |-> LruEmpty, storage_changes |-> <<>>,
   code_hash |-> Some(SHA3_EMPTY), code_cache |-> <<>>, code_size |-> Some(0),
   filth |-> Dirty, address_hash |-> None]

new_contract(balance, nonce) ==
  [balance |-> balance, nonce |-> nonce, storage_root |-> SHA3_NULL_RLP,
   storage_cache |-> LruEmpty, storage_changes |-> <<>>,
   code_hash |-> None, code_cache |-> <<>>, code_size |-> None,
   filth |-> Dirty, address_hash |-> None]

\* RLP payload of an H256: the fixed-width big-endian bytes of the word
EncodeHash(h) == <<h \div 256, h % 256>>

DecodeHash(bytes) == 256 * bytes[1] + bytes[2]

\* mutant: nonce and balance are appended in the other order
rlp_balanceFirst(acc) ==
  <<Encode(acc.balance), Encode(acc.nonce), EncodeHash(acc.storage_root),
    EncodeHash(IF IsSome(acc.code_hash) THEN Unwrap(acc.code_hash) ELSE SHA3_EMPTY)>>

\* rlp(): the list of the encoded nonce, balance, storage_root and code hash
rlp(acc) ==
  <<Encode(acc.nonce), Encode(acc.balance), EncodeHash(acc.storage_root),
    EncodeHash(IF IsSome(acc.code_hash) THEN Unwrap(acc.code_hash) ELSE SHA3_EMPTY)>>

\* mutant: the decoded record is marked Dirty like a new one
from_rlp_dirty(r) ==
  [nonce |-> Decode(r[1]), balance |-> Decode(r[2]),
   storage_root |-> DecodeHash(r[3]),
   storage_cache |-> LruEmpty, storage_changes |-> <<>>,
   code_hash |-> Some(DecodeHash(r[4])), code_cache |-> <<>>, code_size |-> None,
   filth |-> Dirty, address_hash |-> None]

from_rlp(r) ==
  [nonce |-> Decode(r[1]), balance |-> Decode(r[2]),
   storage_root |-> DecodeHash(r[3]),
   storage_cache |-> LruEmpty, storage_changes |-> <<>>,
   code_hash |-> Some(DecodeHash(r[4])), code_cache |-> <<>>, code_size |-> None,
   filth |-> Clean, address_hash |-> None]

----------------------------------------------------------------------------
(* Account: storage *)

MapPut(m, k, v) == [x \in DOMAIN m \cup {k} |-> IF x = k THEN v ELSE m[x]]

storage_is_clean(acc) == DOMAIN acc.storage_changes = {}

is_dirty(acc) == acc.filth = Dirty \/ ~storage_is_clean(acc)

\* test accessor: None while the overlay holds uncommitted writes
storage_root(acc) ==
  IF storage_is_clean(acc) THEN Some(acc.storage_root) ELSE None

\* mutant: the write goes into the overlay without marking the record
set_storage_unmarked(acc, key, value) ==
  [acc EXCEPT !.storage_changes =
     [x \in DOMAIN @ \cup {key} |-> IF x = key THEN value ELSE @[x]]]

set_storage(acc, key, value) ==
  IF key \in DOMAIN acc.storage_changes /\ acc.storage_changes[key] = value
  THEN acc
  ELSE [acc EXCEPT !.storage_changes = MapPut(@, key, value), !.filth = Dirty]

\* mutant: the read cache is consulted before the overlay
cached_storage_at_cacheFirst(acc, key) ==
  IF IsSome(LruPeek(acc.storage_cache, key))
  THEN [acc |-> [acc EXCEPT !.storage_cache = LruTouch(@, key)],
        ret |-> LruPeek(acc.storage_cache, key)]
  ELSE [acc |-> acc,
        ret |-> IF key \in DOMAIN acc.storage_changes
                THEN Some(acc.storage_changes[key]) ELSE None]

\* the record after the call (the cache is mutated through &self) and the
\* value returned
cached_storage_at(acc, key) ==
  IF key \in DOMAIN acc.storage_changes
  THEN [acc |-> acc, ret |-> Some(acc.storage_changes[key])]
  ELSE [acc |-> [acc EXCEPT !.storage_cache = LruTouch(@, key)],
        ret |-> LruPeek(acc.storage_cache, key)]

\* mutant: a value read from the trie is written into the overlay
storage_at_writeBack(acc, key) ==
  LET cached == cached_storage_at(acc, key)
      value == LET found == TrieGet(TrieAt(acc.storage_root), key)
               IN IF IsSome(found) THEN Decode(Unwrap(found)) ELSE 0
  IN IF IsSome(cached.ret)
     THEN [acc |-> cached.acc, ret |-> Unwrap(cached.ret)]
     ELSE [acc |-> [cached.acc EXCEPT !.storage_changes =
                      [x \in DOMAIN @ \cup {key} |-> IF x = key THEN value ELSE @[x]]],
           ret |-> value]

storage_at(acc, key) ==
  LET cached == cached_storage_at(acc, key)
      found == TrieGet(TrieAt(acc.storage_root), key)
      value == IF IsSome(found) THEN Decode(Unwrap(found)) ELSE 0
  IN IF IsSome(cached.ret)
     THEN [acc |-> cached.acc, ret |-> Unwrap(cached.ret)]
     ELSE [acc |-> [cached.acc EXCEPT !.storage_cache = LruInsert(@, key, value)],
           ret |-> value]

\* what the trie under the record's storage_root holds for a key: the value
\* storage_at computes on a cache miss
CommittedValue(acc, key) ==
  LET found == TrieGet(TrieAt(acc.storage_root), key)
  IN IF IsSome(found) THEN Decode(Unwrap(found)) ELSE 0

\* mutant: a zero value is inserted like any other instead of being removed
CommitEntryTrie_insertZero(t, k, v, failed) ==
  IF failed THEN t ELSE TrieInsert(t, k, Encode(v))

\* one iteration of the drain loop: `failed` is whether the trie reported an
\* error for this key
CommitEntryTrie(t, k, v, failed) ==
  IF failed THEN t
  ELSE IF v = 0 THEN TrieRemove(t, k) ELSE TrieInsert(t, k, Encode(v))

\* mutant: the drained entries are not put into the read cache
RECURSIVE CommitDrain_noCache(_, _, _, _, _)
CommitDrain_noCache(st, changes, order, fail, i) ==
  IF i > Len(order) THEN st
  ELSE CommitDrain_noCache(
         [trie |-> CommitEntryTrie(st.trie, order[i], changes[order[i]],
                                   order[i] \in fail),
          cache |-> st.cache],
         changes, order, fail, i + 1)

\* mutant: the loop ends at the first key the trie fails for
RECURSIVE CommitDrain_abortOnFail(_, _, _, _, _)
CommitDrain_abortOnFail(st, changes, order, fail, i) ==
  IF i > Len(order) \/ order[i] \in fail THEN st
  ELSE CommitDrain_abortOnFail(
         [trie |-> CommitEntryTrie(st.trie, order[i], changes[order[i]], FALSE),
          cache |-> LruInsert(st.cache, order[i], changes[order[i]])],
         changes, order, fail, i + 1)

RECURSIVE CommitDrain(_, _, _, _, _)
CommitDrain(st, changes, order, fail, i) ==
  IF i > Len(order) THEN st
  ELSE CommitDrain(
         [trie |-> CommitEntryTrie(st.trie, order[i], changes[order[i]],
                                   order[i] \in fail),
          cache |-> LruInsert(st.cache, order[i], changes[order[i]])],
         changes, order, fail, i + 1)

\* mutant: the trie's new root is not written back to the record
commit_storage_rootKept(acc, order, fail) ==
  LET st == CommitDrain([trie |-> TrieAt(acc.storage_root),
                         cache |-> acc.storage_cache],
                        acc.storage_changes, order, fail, 1)
  IN [acc EXCEPT !.storage_cache = st.cache, !.storage_changes = <<>>]

\* `order` is the order in which HashMap::drain yields the overlay's keys and
\* `fail` the keys whose trie insert or remove returns Err
commit_storage(acc, order, fail) ==
  LET st == CommitDrain([trie |-> TrieAt(acc.storage_root),
                         cache |-> acc.storage_cache],
                        acc.storage_changes, order, fail, 1)
  IN [acc EXCEPT !.storage_root = TrieRoot(st.trie),
                 !.storage_cache = st.cache,
                 !.storage_changes = <<>>]

\* mutant: set_clean without its assertion
set_clean_ok_unchecked(acc) == TRUE

\* set_clean panics when the overlay is not empty
set_clean_ok(acc) == storage_is_clean(acc)

set_clean(acc) == [acc EXCEPT !.filth = Clean]

\* the address the caller knows each record by
AddressOf(h) == IF h = "a" THEN <<1>> ELSE <<1, 1>>

\* address_hash memoises the hash of the address it is first called with
address_hash(acc, address) ==
  IF IsSome(acc.address_hash) THEN acc
  ELSE [acc EXCEPT !.address_hash = Some(Sha3(address))]

----------------------------------------------------------------------------
(* Account: code, balance and nonce *)

\* mutant: init_code without its assertion
init_code_ok_unchecked(acc) == TRUE

\* init_code panics when the record already has a code hash
init_code_ok(acc) == ~IsSome(acc.code_hash)

init_code(acc, bytes) ==
  [acc EXCEPT !.code_cache = bytes, !.code_size = Some(Len(bytes)), !.filth = Dirty]

\* mutant: the new bytes are stored but the old code_hash is kept
reset_code_keepHash(acc, bytes) ==
  [acc EXCEPT !.code_cache = bytes, !.code_size = Some(Len(bytes)), !.filth = Dirty]

reset_code(acc, bytes) ==
  init_code([acc EXCEPT !.code_hash = None, !.code_size = Some(0)], bytes)

\* test accessor
code_hash(acc) == IF IsSome(acc.code_hash) THEN Unwrap(acc.code_hash) ELSE SHA3_EMPTY

is_cached(acc) ==
  acc.code_cache # <<>> \/ (acc.code_cache = <<>> /\ acc.code_hash = Some(SHA3_EMPTY))

\* code(): None when the bytes are not available
code(acc) ==
  IF acc.code_hash = Some(SHA3_EMPTY) /\ acc.code_cache = <<>> THEN Some(acc.code_cache)
  ELSE IF IsSome(acc.code_hash) /\ acc.code_cache # <<>> THEN Some(acc.code_cache)
  ELSE IF acc.code_hash = None THEN Some(acc.code_cache)
  ELSE None

code_size(acc) == acc.code_size

\* HashDB::get on the code store
DbGet(db, h) ==
  IF \E c \in db : Sha3(c) = h THEN Some(CHOOSE c \in db : Sha3(c) = h) ELSE None

\* mutant: a fetch reports success and stores the size but not the bytes
cache_code_noFill(acc, db) ==
  IF is_cached(acc) THEN [acc |-> acc, ret |-> TRUE]
  ELSE IF IsSome(acc.code_hash) /\ IsSome(DbGet(db, Unwrap(acc.code_hash)))
  THEN LET x == Unwrap(DbGet(db, Unwrap(acc.code_hash)))
       IN [acc |-> [acc EXCEPT !.code_size = Some(Len(x))], ret |-> TRUE]
  ELSE [acc |-> acc, ret |-> FALSE]

\* the record after the call and the boolean returned
cache_code(acc, db) ==
  IF is_cached(acc) THEN [acc |-> acc, ret |-> TRUE]
  ELSE IF IsSome(acc.code_hash) /\ IsSome(DbGet(db, Unwrap(acc.code_hash)))
  THEN LET x == Unwrap(DbGet(db, Unwrap(acc.code_hash)))
       IN [acc |-> [acc EXCEPT !.code_cache = x, !.code_size = Some(Len(x))],
           ret |-> TRUE]
  ELSE [acc |-> acc, ret |-> FALSE]

cache_code_size(acc, db) ==
  IF IsSome(acc.code_size) THEN [acc |-> acc, ret |-> TRUE]
  ELSE IF /\ IsSome(acc.code_hash)
          /\ Unwrap(acc.code_hash) # SHA3_EMPTY
          /\ IsSome(DbGet(db, Unwrap(acc.code_hash)))
  THEN [acc |-> [acc EXCEPT !.code_size =
                   Some(Len(Unwrap(DbGet(db, Unwrap(acc.code_hash)))))],
        ret |-> TRUE]
  ELSE [acc |-> acc, ret |-> FALSE]

\* mutant: the hash is recomputed from the cached bytes on every call
commit_code_rehash(acc, db) ==
  [acc |-> [acc EXCEPT !.code_hash = Some(Sha3(acc.code_cache)),
                       !.code_size = Some(Len(acc.code_cache))],
   db |-> db \cup {acc.code_cache}]

\* mutant: a record whose code_hash is set has its code_size recomputed
commit_code_resize(acc, db) ==
  IF acc.code_hash = None
  THEN [acc |-> [acc EXCEPT !.code_hash = Some(Sha3(acc.code_cache)),
                            !.code_size = Some(Len(acc.code_cache))],
        db |-> IF acc.code_cache = <<>> THEN db ELSE db \cup {acc.code_cache}]
  ELSE [acc |-> [acc EXCEPT !.code_size = Some(Len(acc.code_cache))], db |-> db]

\* mutant: the bytes are stored but the hash is left null
commit_code_noHash(acc, db) ==
  IF acc.code_hash = None
  THEN [acc |-> [acc EXCEPT !.code_size = Some(Len(acc.code_cache))],
        db |-> IF acc.code_cache = <<>> THEN db ELSE db \cup {acc.code_cache}]
  ELSE [acc |-> acc, db |-> db]

\* the record and the code store after the call
commit_code(acc, db) ==
  IF acc.code_hash = None /\ acc.code_cache = <<>>
  THEN [acc |-> [acc EXCEPT !.code_hash = Some(SHA3_EMPTY), !.code_size = Some(0)],
        db |-> db]
  ELSE IF acc.code_hash = None
  THEN [acc |-> [acc EXCEPT !.code_hash = Some(Sha3(acc.code_cache)),
                            !.code_size = Some(Len(acc.code_cache))],
        db |-> db \cup {acc.code_cache}]
  ELSE [acc |-> acc, db |-> db]

\* mutant: the nonce is incremented without marking the record
inc_nonce_unmarked(acc) == [acc EXCEPT !.nonce = @ + 1]

inc_nonce(acc) == [acc EXCEPT !.nonce = @ + 1, !.filth = Dirty]

add_balance(acc, x) ==
  IF x # 0 THEN [acc EXCEPT !.balance = @ + x, !.filth = Dirty] ELSE acc

\* mutant: sub_balance without its assertion
sub_balance_ok_unchecked(acc, x) == TRUE

\* sub_balance panics when a non-zero x exceeds the balance
sub_balance_ok(acc, x) == x = 0 \/ acc.balance >= x

sub_balance(acc, x) ==
  IF x # 0 THEN [acc EXCEPT !.balance = @ - x, !.filth = Dirty] ELSE acc

----------------------------------------------------------------------------
(* Account: clones and merge *)

\* mutant: the clone takes the read cache of the original along
clone_basic_keepCache(acc) ==
  [acc EXCEPT !.storage_changes = <<>>, !.code_cache = <<>>]

clone_basic(acc) ==
  [balance |-> acc.balance, nonce |-> acc.nonce,
   storage_root |-> acc.storage_root,
   storage_cache |-> LruEmpty, storage_changes |-> <<>>,
   code_hash |-> acc.code_hash, code_size |-> acc.code_size,
   code_cache |-> <<>>, filth |-> acc.filth,
   address_hash |-> acc.address_hash]

clone_dirty(acc) ==
  [clone_basic(acc) EXCEPT !.storage_changes = acc.storage_changes,
                           !.code_cache = acc.code_cache]

clone_all(acc) ==
  [clone_dirty(acc) EXCEPT !.storage_cache = acc.storage_cache]

RECURSIVE LruInsertAll(_, _, _)
LruInsertAll(c, from, i) ==
  IF i > Len(from) THEN c
  ELSE LruInsertAll(LruInsert(c, from[i][1], from[i][2]), from, i + 1)

\* mutant: only self's overlay is asserted empty
merge_with_ok_selfOnly(self, other) == storage_is_clean(self)

\* merge_with panics unless both overlays are empty
merge_with_ok(self, other) == storage_is_clean(self) /\ storage_is_clean(other)

\* mutant: self's read cache is replaced by other's instead of merged with it
merge_with_replaceCache(self, other) ==
  [self EXCEPT !.balance = other.balance,
               !.nonce = other.nonce,
               !.storage_root = other.storage_root,
               !.code_hash = other.code_hash,
               !.code_cache = other.code_cache,
               !.code_size = other.code_size,
               !.address_hash = other.address_hash,
               !.storage_cache = other.storage_cache]

merge_with(self, other) ==
  [self EXCEPT !.balance = other.balance,
               !.nonce = other.nonce,
               !.storage_root = other.storage_root,
               !.code_hash = other.code_hash,
               !.code_cache = other.code_cache,
               !.code_size = other.code_size,
               !.address_hash = other.address_hash,
               !.storage_cache = LruInsertAll(@, other.storage_cache, 1)]

----------------------------------------------------------------------------
(* Snapshot watcher *)

U64 == 0..MaxU64

\* u64 arithmetic as a build without overflow checks does it
WrapAdd(x, y) == (x + y) % (MaxU64 + 1)

WrapSub(x, y) == (x + (MaxU64 + 1) - y) % (MaxU64 + 1)

\* the hash of the block with number n: injective
BlockHash(n) == MaxU64 - n

\* ClientIoMessage::TakeSnapshot(num)
TakeSnapshot(num) == [msg |-> "TakeSnapshot", num |-> num]

Watcher_new(period, history) == [period |-> period, history |-> history]

\* StandardOracle::to_number: the number in the header of a block the
\* client has, None for a hash it does not know
to_number(c, hash) ==
  IF \E n \in 0..c.best : BlockHash(n) = hash
  THEN Some(CHOOSE n \in 0..c.best : BlockHash(n) = hash)
  ELSE None

\* StandardOracle::is_major_syncing
is_major_syncing(c) ==
  c.sync_status \/ c.unverified_queue_size + c.verified_queue_size > 3

\* IoChannel::send: an error (the service is gone) is only logged
Send(ch, message) ==
  IF ch.connected THEN [ch EXCEPT !.queue = Append(@, message)] ELSE ch

\* Broadcast::take_at for the IoChannel
take_at(ch, num) ==
  IF num = None THEN ch ELSE Send(ch, TakeSnapshot(Unwrap(num)))

\* imported.into_iter().filter_map(|h| self.oracle.to_number(h))
RECURSIVE FilterMapToNumber(_, _)
FilterMapToNumber(c, imported) ==
  IF imported = <<>> THEN <<>>
  ELSE LET rest == FilterMapToNumber(c, Tail(imported))
       IN IF IsSome(to_number(c, Head(imported)))
          THEN <<Unwrap(to_number(c, Head(imported)))>> \o rest
          ELSE rest

\* .fold(0, ::std::cmp::max)
RECURSIVE FoldMax(_, _)
FoldMax(nums, acc) ==
  IF nums = <<>> THEN acc
  ELSE FoldMax(Tail(nums), IF Head(nums) > acc THEN Head(nums) ELSE acc)

\* the numbers that pass .filter(|&num| num >= self.period + self.history)
AtLeastHistory(w, nums) ==
  SelectSeq(nums, LAMBDA num : num >= WrapAdd(w.period, w.history))

\* .map(|num| num - self.history)
MinusHistory(w, nums) == [i \in DOMAIN nums |-> WrapSub(nums[i], w.history)]

\* new_blocks panics on the first number it handles when period + history
\* overflows in a build with overflow checks, and on the first number that
\* reaches num % self.period when period is zero
new_blocks_ok(w, c, imported, overflow_checks) ==
  \/ is_major_syncing(c)
  \/ LET nums == FilterMapToNumber(c, imported)
     IN /\ ~(overflow_checks /\ nums # <<>> /\ w.period + w.history > MaxU64)
        /\ ~(w.period = 0 /\ AtLeastHistory(w, nums) # <<>>)

\* the argument new_blocks gives to take_at, when it returns
Highest(w, c, imported) ==
  LET old == MinusHistory(w, AtLeastHistory(w, FilterMapToNumber(c, imported)))
      highest == FoldMax(SelectSeq(old, LAMBDA num : num % w.period = 0), 0)
  IN IF highest = 0 THEN None ELSE Some(highest)

\* Watcher::new_blocks: the channel after the call
new_blocks(w, c, ch, imported, overflow_checks) ==
  IF is_major_syncing(c) \/ ~new_blocks_ok(w, c, imported, overflow_checks)
  THEN ch
  ELSE take_at(ch, Highest(w, c, imported))

\* the lists of hashes new_blocks is given
ImportedLists == UNION {[1..n -> U64] : n \in 0..MaxImported}

\* a watcher that is never notified, beside the account records
IdleWatcher ==
  /\ watcher = Watcher_new(1, 0)
  /\ chain = [best |-> 0, sync_status |-> FALSE,
              unverified_queue_size |-> 0, verified_queue_size |-> 0]
  /\ channel = [connected |-> TRUE, queue |-> <<>>]

----------------------------------------------------------------------------
(* The caller: one action per call *)

Perms(S) == {f \in [1..Cardinality(S) -> S] : \A x \in S : \E i \in DOMAIN f : f[i] = x}

\* the call made last: its name and whether it returned (FALSE: it panicked)
Did(op, ok) == [op |-> op, ok |-> ok]

Put(h, acc) == accounts' = [accounts EXCEPT ![h] = acc]

NewBasic(h) ==
  \E balance \in U256, nonce \in U256 :
    /\ Put(h, new_basic(balance, nonce))
    /\ last' = Did("new_basic", TRUE)
    /\ UNCHANGED <<codeDb, hist, watcher, chain, channel>>

NewContract(h) ==
  \E balance \in U256, nonce \in U256 :
    /\ Put(h, new_contract(balance, nonce))
    /\ last' = Did("new_contract", TRUE)
    /\ UNCHANGED <<codeDb, hist, watcher, chain, channel>>

\* g := Account::from_rlp(&h.rlp())
FromRlp(h, g) ==
  /\ Put(g, from_rlp(rlp(accounts[h])))
  /\ last' = Did("from_rlp", TRUE)
  /\ UNCHANGED <<codeDb, hist, watcher, chain, channel>>

AddressHash(h) ==
  /\ Put(h, address_hash(accounts[h], AddressOf(h)))
  /\ last' = Did("address_hash", TRUE)
  /\ UNCHANGED <<codeDb, hist, watcher, chain, channel>>

SetStorage(h) ==
  \E key \in H256, value \in H256 :
    /\ Put(h, set_storage(accounts[h], key, value))
    /\ last' = Did("set_storage", TRUE)
    /\ UNCHANGED <<codeDb, hist, watcher, chain, channel>>

\* set_storage on "a", recording the key in the history
SetStorageTracked ==
  \E key \in H256, value \in H256 :
    /\ Put("a", set_storage(accounts["a"], key, value))
    /\ last' = Did("set_storage", TRUE)
    /\ hist' = [hist EXCEPT !.written = @ \cup {key}]
    /\ UNCHANGED <<codeDb, watcher, chain, channel>>

CachedStorageAt(h) ==
  \E key \in H256 :
    /\ Put(h, cached_storage_at(accounts[h], key).acc)
    /\ last' = Did("cached_storage_at", TRUE)
    /\ UNCHANGED <<codeDb, hist, watcher, chain, channel>>

StorageAt(h) ==
  \E key \in H256 :
    /\ Put(h, storage_at(accounts[h], key).acc)
    /\ last' = Did("storage_at", TRUE)
    /\ UNCHANGED <<codeDb, hist, watcher, chain, channel>>

CommitStorage(h) ==
  \E order \in Perms(DOMAIN accounts[h].storage_changes) :
    /\ Put(h, commit_storage(accounts[h], order, {}))
    /\ last' = Did("commit_storage", TRUE)
    /\ UNCHANGED <<codeDb, hist, watcher, chain, channel>>

\* commit_storage on "a", recording the keys it removes in the history
CommitStorageTracked ==
  \E order \in Perms(DOMAIN accounts["a"].storage_changes) :
    /\ Put("a", commit_storage(accounts["a"], order, {}))
    /\ last' = Did("commit_storage", TRUE)
    /\ hist' = [hist EXCEPT !.removed =
                  {k \in DOMAIN accounts["a"].storage_changes :
                     /\ accounts["a"].storage_changes[k] = 0
                     /\ CommittedValue(accounts["a"], k) # 0}]
    /\ UNCHANGED <<codeDb, watcher, chain, channel>>

\* commit_storage over a store whose trie reports an error for some keys
CommitStorageFailing(h) ==
  \E order \in Perms(DOMAIN accounts[h].storage_changes) :
    \E fail \in SUBSET (DOMAIN accounts[h].storage_changes) \ {{}} :
      /\ Put(h, commit_storage(accounts[h], order, fail))
      /\ last' = Did("commit_storage_failing", TRUE)
      /\ UNCHANGED <<codeDb, hist, watcher, chain, channel>>

\* commit_storage on "a" over a failing store, recording the keys the trie
\* failed for in the history
CommitStorageFailingTracked ==
  \E order \in Perms(DOMAIN accounts["a"].storage_changes) :
    \E fail \in SUBSET (DOMAIN accounts["a"].storage_changes) \ {{}} :
      /\ Put("a", commit_storage(accounts["a"], order, fail))
      /\ last' = Did("commit_storage_failing", TRUE)
      /\ hist' = [hist EXCEPT !.failed = fail]
      /\ UNCHANGED <<codeDb, watcher, chain, channel>>

\* the same set_storage on both records
SetStorageBoth ==
  \E key \in H256, value \in H256 :
    /\ accounts' = [h \in Handles |-> set_storage(accounts[h], key, value)]
    /\ last' = Did("set_storage", TRUE)
    /\ UNCHANGED <<codeDb, hist, watcher, chain, channel>>

\* commit_storage on both records, each draining its overlay in its own order
CommitStorageBoth ==
  \E orderA \in Perms(DOMAIN accounts["a"].storage_changes) :
    \E orderB \in Perms(DOMAIN accounts["b"].storage_changes) :
      /\ accounts' = [h \in Handles |->
                        commit_storage(accounts[h],
                                       IF h = "a" THEN orderA ELSE orderB, {})]
      /\ last' = Did("commit_storage", TRUE)
      /\ UNCHANGED <<codeDb, hist, watcher, chain, channel>>

SetClean(h) ==
  /\ IF set_clean_ok(accounts[h])
     THEN /\ Put(h, set_clean(accounts[h]))
          /\ last' = Did("set_clean", TRUE)
     ELSE /\ UNCHANGED accounts
          /\ last' = Did("set_clean", FALSE)
  /\ UNCHANGED <<codeDb, hist, watcher, chain, channel>>

CloneBasic(h, g) ==
  /\ Put(g, clone_basic(accounts[h]))
  /\ last' = Did("clone_basic", TRUE)
  /\ UNCHANGED <<codeDb, hist, watcher, chain, channel>>

CloneDirty(h, g) ==
  /\ Put(g, clone_dirty(accounts[h]))
  /\ last' = Did("clone_dirty", TRUE)
  /\ UNCHANGED <<codeDb, hist, watcher, chain, channel>>

CloneAll(h, g) ==
  /\ Put(g, clone_all(accounts[h]))
  /\ last' = Did("clone_all", TRUE)
  /\ UNCHANGED <<codeDb, hist, watcher, chain, channel>>

\* h.merge_with(g.clone_all()): merge_with consumes its argument
MergeWith(h, g) ==
  /\ IF merge_with_ok(accounts[h], accounts[g])
     THEN /\ Put(h, merge_with(accounts[h], clone_all(accounts[g])))
          /\ last' = Did("merge_with", TRUE)
     ELSE /\ UNCHANGED accounts
          /\ last' = Did("merge_with", FALSE)
  /\ UNCHANGED <<codeDb, hist, watcher, chain, channel>>

InitCode(h) ==
  \E bytes \in Codes :
    /\ IF init_code_ok(accounts[h])
       THEN /\ Put(h, init_code(accounts[h], bytes))
            /\ last' = Did("init_code", TRUE)
       ELSE /\ UNCHANGED accounts
            /\ last' = Did("init_code", FALSE)
    /\ UNCHANGED <<codeDb, hist, watcher, chain, channel>>

ResetCode(h) ==
  \E bytes \in Codes :
    /\ Put(h, reset_code(accounts[h], bytes))
    /\ last' = Did("reset_code", TRUE)
    /\ UNCHANGED <<codeDb, hist, watcher, chain, channel>>

CommitCode(h) ==
  /\ Put(h, commit_code(accounts[h], codeDb).acc)
  /\ codeDb' = commit_code(accounts[h], codeDb).db
  /\ last' = Did("commit_code", TRUE)
  /\ UNCHANGED <<hist, watcher, chain, channel>>

CacheCode(h) ==
  /\ Put(h, cache_code(accounts[h], codeDb).acc)
  /\ last' = Did("cache_code", cache_code(accounts[h], codeDb).ret)
  /\ UNCHANGED <<codeDb, hist, watcher, chain, channel>>

CacheCodeSize(h) ==
  /\ Put(h, cache_code_size(accounts[h], codeDb).acc)
  /\ last' = Did("cache_code_size", cache_code_size(accounts[h], codeDb).ret)
  /\ UNCHANGED <<codeDb, hist, watcher, chain, channel>>

\* cache_code with another store than the one the code was committed to: a
\* new, empty one
CacheCodeEmptyDb(h) ==
  /\ Put(h, cache_code(accounts[h], {}).acc)
  /\ last' = Did("cache_code", cache_code(accounts[h], {}).ret)
  /\ UNCHANGED <<codeDb, hist, watcher, chain, channel>>

\* cache_code_size with a new, empty store
CacheCodeSizeEmptyDb(h) ==
  /\ Put(h, cache_code_size(accounts[h], {}).acc)
  /\ last' = Did("cache_code_size", cache_code_size(accounts[h], {}).ret)
  /\ UNCHANGED <<codeDb, hist, watcher, chain, channel>>

\* the nonce is capped at MaxU256
IncNonce(h) ==
  /\ accounts[h].nonce < MaxU256
  /\ Put(h, inc_nonce(accounts[h]))
  /\ last' = Did("inc_nonce", TRUE)
  /\ UNCHANGED <<codeDb, hist, watcher, chain, channel>>

\* the balance is capped at MaxU256
AddBalance(h) ==
  \E x \in U256 :
    /\ accounts[h].balance + x <= MaxU256
    /\ Put(h, add_balance(accounts[h], x))
    /\ last' = Did("add_balance", TRUE)
    /\ UNCHANGED <<codeDb, hist, watcher, chain, channel>>

SubBalance(h) ==
  \E x \in U256 :
    /\ IF sub_balance_ok(accounts[h], x)
       THEN /\ Put(h, sub_balance(accounts[h], x))
            /\ last' = Did("sub_balance", TRUE)
       ELSE /\ UNCHANGED accounts
            /\ last' = Did("sub_balance", FALSE)
    /\ UNCHANGED <<codeDb, hist, watcher, chain, channel>>

\* the sync status the watcher was constructed with changes
SetSyncStatus ==
  /\ chain' = [chain EXCEPT !.sync_status = ~@]
  /\ last' = Did("sync_status", TRUE)
  /\ UNCHANGED <<accounts, codeDb, hist, watcher, channel>>

\* a block enters the verification queue
QueueBlock ==
  /\ chain.unverified_queue_size < MaxQueue
  /\ chain' = [chain EXCEPT !.unverified_queue_size = @ + 1]
  /\ last' = Did("queue_block", TRUE)
  /\ UNCHANGED <<accounts, codeDb, hist, watcher, channel>>

\* the queue verifies a block
VerifyBlock ==
  /\ chain.unverified_queue_size > 0
  /\ chain.verified_queue_size < MaxQueue
  /\ chain' = [chain EXCEPT !.unverified_queue_size = @ - 1,
                            !.verified_queue_size = @ + 1]
  /\ last' = Did("verify_block", TRUE)
  /\ UNCHANGED <<accounts, codeDb, hist, watcher, channel>>

\* the client imports a verified block as its best block
ImportBlock ==
  /\ chain.verified_queue_size > 0
  /\ chain.best < MaxU64
  /\ chain' = [chain EXCEPT !.verified_queue_size = @ - 1, !.best = @ + 1]
  /\ last' = Did("import_block", TRUE)
  /\ UNCHANGED <<accounts, codeDb, hist, watcher, channel>>

\* the client notifies the watcher of imported hashes
NewBlocks ==
  \E imported \in ImportedLists, overflow_checks \in BOOLEAN :
    /\ Len(channel.queue) < MaxChannel
    /\ channel' = new_blocks(watcher, chain, channel, imported, overflow_checks)
    /\ last' = Did("new_blocks", new_blocks_ok(watcher, chain, imported, overflow_checks))
    /\ UNCHANGED <<accounts, codeDb, hist, watcher, chain>>

\* the IoService takes a message off the channel
HandleMessage ==
  /\ channel.queue # <<>>
  /\ channel' = [channel EXCEPT !.queue = Tail(@)]
  /\ last' = Did("handle_message", TRUE)
  /\ UNCHANGED <<accounts, codeDb, hist, watcher, chain>>

\* the IoService goes away
Disconnect ==
  /\ channel.connected
  /\ channel' = [channel EXCEPT !.connected = FALSE]
  /\ last' = Did("disconnect", TRUE)
  /\ UNCHANGED <<accounts, codeDb, hist, watcher, chain>>

----------------------------------------------------------------------------
(* Specifications *)

\* "a" is a freshly made contract account and "b" a freshly made basic
\* account that differs from it in every durable field
Init ==
  /\ accounts = [h \in Handles |->
                   IF h = "a" THEN new_contract(0, 0) ELSE new_basic(MaxU256, MaxU256)]
  /\ codeDb = {}
  /\ last = Did("init", TRUE)
  /\ hist = [written |-> {}, removed |-> {}, failed |-> {}]
  /\ IdleWatcher

\* one record's storage engine over a store that does not fail; the record
\* is reopened from its own encoding
NextStorage ==
  \/ SetStorageTracked
  \/ CachedStorageAt("a")
  \/ StorageAt("a")
  \/ CommitStorageTracked
  \/ SetClean("a")
  \/ FromRlp("a", "a")

SpecStorage == Init /\ [][NextStorage]_vars

\* two records: "b" is cloned from "a" and merged into it, and both read,
\* write and commit their storage, over a store that may fail
NextPair ==
  \/ \E h \in Handles :
       \/ SetStorage(h)
       \/ StorageAt(h)
       \/ CommitStorage(h)
       \/ CommitStorageFailing(h)
  \/ CloneBasic("a", "b")
  \/ CloneDirty("a", "b")
  \/ CloneAll("a", "b")
  \/ MergeWith("a", "b")

SpecPair == Init /\ [][NextPair]_vars

\* merges of "b", which writes and commits its storage and memoises its
\* address hash, into "a", a committed view that is only read
NextMerge ==
  \/ SetStorage("b")
  \/ CommitStorage("b")
  \/ AddressHash("b")
  \/ \E h \in Handles : StorageAt(h)
  \/ MergeWith("a", "b")

SpecMerge == Init /\ [][NextMerge]_vars

\* the dirty flag of two records under writes, commits, set_clean, clones,
\* merges and decoding
NextFilth ==
  \/ \E h \in Handles :
       \/ SetStorage(h)
       \/ CommitStorage(h)
       \/ SetClean(h)
  \/ CloneBasic("a", "b")
  \/ CloneDirty("a", "b")
  \/ CloneAll("a", "b")
  \/ MergeWith("a", "b")
  \/ FromRlp("a", "b")

SpecFilth == Init /\ [][NextFilth]_vars

\* the code of "a": attached, reset, committed to the code store and fetched
\* back, with "b" a second record that is given code and merged into "a"
NextCode ==
  \/ InitCode("a")
  \/ \E h \in Handles : ResetCode(h)
  \/ \E h \in Handles : CommitCode(h)
  \/ CacheCode("a")
  \/ CacheCodeSize("a")
  \/ FromRlp("a", "a")
  \/ MergeWith("a", "b")

SpecCode == Init /\ [][NextCode]_vars

\* every operation that changes a field of "a", between set_clean and
\* from_rlp; "b" is the record merged into "a"
NextDirty ==
  \/ SetStorage("a")
  \/ CommitStorage("a")
  \/ IncNonce("a")
  \/ AddBalance("a")
  \/ SubBalance("a")
  \/ InitCode("a")
  \/ ResetCode("a")
  \/ CommitCode("a")
  \/ CacheCode("a")
  \/ CacheCodeSize("a")
  \/ MergeWith("a", "b")
  \/ SetClean("a")
  \/ FromRlp("a", "a")

SpecDirty == Init /\ [][NextDirty]_vars

\* "a" is given code, writes, reads and commits, "b" is cloned from it at
\* each of the three depths, and both records are changed after the clone
NextClone ==
  \/ \E h \in Handles :
       \/ SetStorage(h)
       \/ StorageAt(h)
  \/ CommitStorage("a")
  \/ ResetCode("a")
  \/ CloneBasic("a", "b")
  \/ CloneDirty("a", "b")
  \/ CloneAll("a", "b")

SpecClone == Init /\ [][NextClone]_vars

\* the code of "a" is committed, dropped by decoding or a basic clone, and
\* fetched back from the store it was committed to or from an empty one
NextFetch ==
  \/ ResetCode("a")
  \/ CommitCode("a")
  \/ FromRlp("a", "a")
  \/ CloneBasic("a", "b")
  \/ MergeWith("a", "b")
  \/ CacheCode("a")
  \/ CacheCodeSize("a")
  \/ CacheCodeEmptyDb("a")
  \/ CacheCodeSizeEmptyDb("a")

SpecFetch == Init /\ [][NextFetch]_vars

\* any watcher Watcher::new makes, on a client at its first block
InitWatcher ==
  /\ accounts = [h \in Handles |-> new_basic(0, 0)]
  /\ codeDb = {}
  /\ last = Did("init", TRUE)
  /\ hist = [written |-> {}, removed |-> {}, failed |-> {}]
  /\ \E period \in U64, history \in U64 : watcher = Watcher_new(period, history)
  /\ chain = [best |-> 0, sync_status |-> FALSE,
              unverified_queue_size |-> 0, verified_queue_size |-> 0]
  /\ channel = [connected |-> TRUE, queue |-> <<>>]

\* blocks go through the queue into the chain while the watcher is notified
\* of hashes and its messages are taken off the channel
NextWatcher ==
  \/ SetSyncStatus
  \/ QueueBlock
  \/ VerifyBlock
  \/ ImportBlock
  \/ NewBlocks
  \/ HandleMessage
  \/ Disconnect

SpecWatcher == InitWatcher /\ [][NextWatcher]_vars

\* "a" is any account a constructor makes
InitRlp ==
  /\ \E balance \in U256, nonce \in U256 :
       accounts \in {[h \in Handles |-> new_basic(balance, nonce)],
                     [h \in Handles |-> new_contract(balance, nonce)]}
  /\ codeDb = {}
  /\ last = Did("init", TRUE)
  /\ hist = [written |-> {}, removed |-> {}, failed |-> {}]
  /\ IdleWatcher

\* "a" is given code and storage, both committed, and "b" is re-created from
\* the encoding of "a"
NextRlp ==
  \/ ResetCode("a")
  \/ CommitCode("a")
  \/ SetStorage("a")
  \/ CommitStorage("a")
  \/ FromRlp("a", "b")

SpecRlp == InitRlp /\ [][NextRlp]_vars

\* "a" and "b" are any two accounts the constructors make
InitLedger ==
  /\ accounts \in [Handles -> {new_basic(balance, nonce) : balance \in U256, nonce \in U256}
                                \cup {new_contract(balance, nonce) :
                                        balance \in U256, nonce \in U256}]
  /\ codeDb = {}
  /\ last = Did("init", TRUE)
  /\ hist = [written |-> {}, removed |-> {}, failed |-> {}]
  /\ IdleWatcher

\* balances and nonces of two records, which are marked clean, re-created
\* from their encoding and merged
NextLedger ==
  \/ \E h \in Handles :
       \/ IncNonce(h)
       \/ AddBalance(h)
       \/ SubBalance(h)
       \/ SetClean(h)
  \/ FromRlp("a", "a")
  \/ MergeWith("a", "b")

SpecLedger == InitLedger /\ [][NextLedger]_vars

\* one record over a store whose trie may report an error for any key
NextFailing ==
  \/ SetStorage("a")
  \/ StorageAt("a")
  \/ CommitStorage("a")
  \/ CommitStorageFailingTracked

SpecFailing == Init /\ [][NextFailing]_vars

\* "a" and "b" are the same new contract account
InitShadow ==
  /\ accounts = [h \in Handles |-> new_contract(0, 0)]
  /\ codeDb = {}
  /\ last = Did("init", TRUE)
  /\ hist = [written |-> {}, removed |-> {}, failed |-> {}]
  /\ IdleWatcher

\* both records are given the same writes and commits, and only "a" is read
NextShadow ==
  \/ SetStorageBoth
  \/ CommitStorageBoth
  \/ StorageAt("a")
  \/ CachedStorageAt("a")

SpecShadow == InitShadow /\ [][NextShadow]_vars

----------------------------------------------------------------------------
(* Claims about one record's storage (SpecStorage) *)

\* the record the caller gets by decoding the record's own encoding
Reopened(acc) == from_rlp(rlp(acc))

\* C1: after set_storage(k, v) with v non-zero and a commit_storage whose
\* store does not fail, storage_at(k) returns exactly v, on the record itself
\* and on the record decoded from its rlp(); a key that was never written
\* reads back as zero on both.
C1_CommitThenRead ==
  /\ [][last'.op = "commit_storage" =>
          \A k \in DOMAIN accounts["a"].storage_changes :
            accounts["a"].storage_changes[k] # 0 =>
              /\ storage_at(accounts'["a"], k).ret = accounts["a"].storage_changes[k]
              /\ storage_at(Reopened(accounts'["a"]), k).ret
                   = accounts["a"].storage_changes[k]]_vars
  /\ [](\A k \in H256 \ hist.written :
          /\ storage_at(accounts["a"], k).ret = 0
          /\ storage_at(Reopened(accounts["a"]), k).ret = 0)

\* a non-zero value has been committed and is read back from the trie by the
\* reopened record, while another key was never written
C1_Witness ==
  /\ last.op = "commit_storage"
  /\ \E k \in hist.written, u \in H256 \ hist.written :
       /\ k \in LruKeys(accounts["a"].storage_cache)
       /\ storage_at(Reopened(accounts["a"]), k).ret # 0
       /\ storage_at(Reopened(accounts["a"]), u).ret = 0

\* C3: right after set_storage(k, v), before any commit, cached_storage_at(k)
\* is Some(v) and storage_at(k) is v, whatever the read cache and the trie
\* hold for k; in every state each overlay entry shadows the cache entry of
\* its key.
C3_OverlayShadowsCache ==
  /\ [][last'.op = "set_storage" =>
          \A k \in H256, v \in H256 :
            accounts'["a"] = set_storage(accounts["a"], k, v) =>
              /\ cached_storage_at(accounts'["a"], k).ret = Some(v)
              /\ storage_at(accounts'["a"], k).ret = v]_vars
  /\ [](\A k \in DOMAIN accounts["a"].storage_changes :
          /\ cached_storage_at(accounts["a"], k).ret
               = Some(accounts["a"].storage_changes[k])
          /\ storage_at(accounts["a"], k).ret = accounts["a"].storage_changes[k])

\* set_storage has just written a key for which the read cache and the trie
\* hold other values
C3_Witness ==
  /\ last.op = "set_storage"
  /\ \E k \in DOMAIN accounts["a"].storage_changes :
       /\ IsSome(LruPeek(accounts["a"].storage_cache, k))
       /\ LruPeek(accounts["a"].storage_cache, k)
            # Some(accounts["a"].storage_changes[k])
       /\ CommittedValue(accounts["a"], k) # accounts["a"].storage_changes[k]

\* the trie that holds exactly the non-zero values of `content`, built from
\* the empty trie by inserts alone
RECURSIVE TrieOfContent(_, _)
TrieOfContent(content, k) ==
  IF k < 0 THEN EmptyTrie
  ELSE IF content[k] = 0 THEN TrieOfContent(content, k - 1)
  ELSE TrieInsert(TrieOfContent(content, k - 1), k, Encode(content[k]))

\* what the storage of `acc` holds once its overlay is committed, had `key`
\* never been set
ContentWithout(acc, key) ==
  [k \in H256 |->
     IF k = key THEN 0
     ELSE IF k \in DOMAIN acc.storage_changes THEN acc.storage_changes[k]
     ELSE CommittedValue(acc, k)]

\* C4: for a key committed earlier with a non-zero value, set_storage(key, 0)
\* followed by commit_storage removes the key from the trie: storage_at then
\* returns zero and the new storage_root is the root of the trie that holds
\* the other keys alone, as if the key had never been set.
C4_ZeroRemovesKey ==
  [][last'.op = "commit_storage" =>
       \A k \in DOMAIN accounts["a"].storage_changes :
         (accounts["a"].storage_changes[k] = 0 /\ CommittedValue(accounts["a"], k) # 0) =>
           /\ TrieGet(TrieAt(accounts'["a"].storage_root), k) = None
           /\ storage_at(accounts'["a"], k).ret = 0
           /\ storage_at(Reopened(accounts'["a"]), k).ret = 0
           /\ accounts'["a"].storage_root
                = TrieRoot(TrieOfContent(ContentWithout(accounts["a"], k), MaxH256))]_vars

\* a commit has just removed a key that held a non-zero value, and the trie
\* still holds another key
C4_Witness ==
  /\ last.op = "commit_storage"
  /\ hist.removed # {}
  /\ \E k \in H256 \ hist.removed : CommittedValue(accounts["a"], k) # 0

----------------------------------------------------------------------------
(* Claims about two records (SpecPair, SpecMerge, SpecFilth) *)

\* C2: for every key that is not in the write overlay, storage_at returns the
\* value the trie under the record's storage_root holds for it (zero if
\* absent): the read cache is never stale.
C2_NoStaleRead ==
  \A h \in Handles : \A k \in H256 \ DOMAIN accounts[h].storage_changes :
    storage_at(accounts[h], k).ret = CommittedValue(accounts[h], k)

\* C5: no record is Clean while its overlay is non-empty; is_dirty() holds
\* exactly when the flag is Dirty or the overlay is non-empty; a set_clean
\* that returns was made on a record with an empty overlay and sets only its
\* flag, and one that panics changes nothing.
C5_CleanMeansEmptyOverlay ==
  /\ [](\A h \in Handles :
          /\ accounts[h].filth = Clean => DOMAIN accounts[h].storage_changes = {}
          /\ is_dirty(accounts[h])
               <=> (accounts[h].filth = Dirty \/ DOMAIN accounts[h].storage_changes # {}))
  /\ [][last'.op = "set_clean" =>
          IF last'.ok
          THEN \E h \in Handles :
                 /\ DOMAIN accounts[h].storage_changes = {}
                 /\ accounts' = [accounts EXCEPT ![h].filth = Clean]
          ELSE /\ accounts' = accounts
               /\ \E h \in Handles : DOMAIN accounts[h].storage_changes # {}]_vars

\* set_clean has just panicked on a record with uncommitted writes while the
\* other record is Clean
C5_Witness ==
  /\ last.op = "set_clean"
  /\ ~last.ok
  /\ \E h \in Handles :
       /\ DOMAIN accounts[h].storage_changes # {}
       /\ accounts[h].filth = Dirty
  /\ \E h \in Handles : accounts[h].filth = Clean

\* C8: merge_with returns exactly when self's and other's overlays are both
\* empty; otherwise it panics and leaves self as it was.
C8_MergeNeedsEmptyOverlays ==
  [][last'.op = "merge_with" =>
       /\ last'.ok <=> (/\ DOMAIN accounts["a"].storage_changes = {}
                        /\ DOMAIN accounts["b"].storage_changes = {})
       /\ ~last'.ok => accounts' = accounts]_vars

\* merge_with has just panicked because of other's overlay alone
C8_Witness ==
  /\ last.op = "merge_with"
  /\ ~last.ok
  /\ DOMAIN accounts["a"].storage_changes = {}
  /\ DOMAIN accounts["b"].storage_changes # {}

\* self's durable fields and code are other's
MergedFields(self, other) ==
  /\ self.balance = other.balance
  /\ self.nonce = other.nonce
  /\ self.storage_root = other.storage_root
  /\ self.code_hash = other.code_hash
  /\ self.code_size = other.code_size
  /\ self.code_cache = other.code_cache
  /\ self.address_hash = other.address_hash

\* C9 as stated: after a merge_with that returns, self's fields are other's
\* and every key cached on either side before is cached in self after.
C9_CacheIsUnion ==
  [][(last'.op = "merge_with" /\ last'.ok) =>
       /\ MergedFields(accounts'["a"], accounts["b"])
       /\ LruKeys(accounts["a"].storage_cache) \cup LruKeys(accounts["b"].storage_cache)
            \subseteq LruKeys(accounts'["a"].storage_cache)]_vars

\* C9 amended: after a merge_with that returns, self's fields are other's;
\* self's cache holds every entry of other's cache, and besides them only
\* entries self's cache held before, unchanged; every key cached on either
\* side before is cached after when there are at most STORAGE_CACHE_ITEMS
\* such keys, and otherwise the cache is full.
C9_CacheIsBoundedUnion ==
  [][(last'.op = "merge_with" /\ last'.ok) =>
       LET mine == accounts["a"].storage_cache
           theirs == accounts["b"].storage_cache
           after == accounts'["a"].storage_cache
           union == LruKeys(mine) \cup LruKeys(theirs)
       IN /\ MergedFields(accounts'["a"], accounts["b"])
          /\ \A k \in LruKeys(theirs) : LruPeek(after, k) = LruPeek(theirs, k)
          /\ LruKeys(after) \subseteq union
          /\ \A k \in LruKeys(after) \ LruKeys(theirs) :
               LruPeek(after, k) = LruPeek(mine, k)
          /\ IF Cardinality(union) <= STORAGE_CACHE_ITEMS
             THEN LruKeys(after) = union
             ELSE Len(after) = STORAGE_CACHE_ITEMS]_vars

\* a merge has just given self other's root, address hash and cache entry,
\* a non-zero value read from other's trie
C9_Witness ==
  /\ last.op = "merge_with"
  /\ last.ok
  /\ IsSome(accounts["a"].address_hash)
  /\ accounts["a"].storage_root # SHA3_NULL_RLP
  /\ MergedFields(accounts["a"], accounts["b"])
  /\ \E k \in LruKeys(accounts["b"].storage_cache) :
       /\ LruPeek(accounts["a"].storage_cache, k) = LruPeek(accounts["b"].storage_cache, k)
       /\ LruPeek(accounts["a"].storage_cache, k) # Some(0)

----------------------------------------------------------------------------
(* Claims about code, the dirty flag and the encoding (SpecCode, SpecDirty,
   SpecRlp) *)

\* C6 as stated: once a record's code_hash is non-null, no step changes it.
C6_CodeHashNeverChanges ==
  [][\A h \in Handles :
       IsSome(accounts[h].code_hash) =>
         accounts'[h].code_hash = accounts[h].code_hash]_vars

\* C6 amended: a non-null code_hash is changed only by reset_code, which
\* makes it null, and by a merge_with that returns, which makes it other's;
\* init_code on a record whose code_hash is non-null panics and changes
\* nothing, and commit_code, cache_code, cache_code_size and from_rlp leave
\* a non-null code_hash as it is.
C6_CodeHashChangesOnlyByResetOrMerge ==
  /\ [][\A h \in Handles :
          (IsSome(accounts[h].code_hash)
             /\ accounts'[h].code_hash # accounts[h].code_hash) =>
            \/ last'.op = "reset_code" /\ accounts'[h].code_hash = None
            \/ /\ last'.op = "merge_with"
               /\ last'.ok
               /\ h = "a"
               /\ accounts'[h].code_hash = accounts["b"].code_hash]_vars
  /\ [][last'.op = "init_code" =>
          /\ last'.ok <=> accounts["a"].code_hash = None
          /\ ~last'.ok => accounts' = accounts]_vars

\* init_code has just been rejected on a record whose code was committed to
\* the code store, which by now holds two different codes
C6_Witness ==
  /\ last.op = "init_code"
  /\ ~last.ok
  /\ IsSome(accounts["a"].code_hash)
  /\ accounts["a"].code_hash # Some(SHA3_EMPTY)
  /\ accounts["a"].code_cache \in codeDb
  /\ Cardinality(codeDb) = 2

\* the fields C7 names: balance, nonce, storage_root, code_hash, code bytes
\* and the overlay
TrackedFields(acc) ==
  <<acc.balance, acc.nonce, acc.storage_root, acc.code_hash, acc.code_cache,
    acc.storage_changes>>

\* C7: a set_storage, inc_nonce, add_balance, sub_balance, init_code,
\* reset_code, commit_code or merge_with that changes one of the record's
\* fields leaves is_dirty() true.
C7_ChangeLeavesDirty ==
  [][(/\ last'.op \in {"set_storage", "inc_nonce", "add_balance", "sub_balance",
                       "init_code", "reset_code", "commit_code", "merge_with"}
      /\ TrackedFields(accounts'["a"]) # TrackedFields(accounts["a"])) =>
       is_dirty(accounts'["a"])]_vars

\* C10: for every account, the account decoded from its encoding has the
\* same balance, nonce and storage_root, and as code hash the account's
\* code_hash, or SHA3_EMPTY when that is null; so has the record from_rlp
\* makes of a.rlp().
C10_RlpRoundTrip ==
  /\ [](\A h \in Handles :
          LET decoded == from_rlp(rlp(accounts[h]))
          IN /\ decoded.balance = accounts[h].balance
             /\ decoded.nonce = accounts[h].nonce
             /\ decoded.storage_root = accounts[h].storage_root
             /\ decoded.code_hash = Some(code_hash(accounts[h])))
  /\ [][last'.op = "from_rlp" =>
          /\ accounts'["b"].balance = accounts["a"].balance
          /\ accounts'["b"].nonce = accounts["a"].nonce
          /\ accounts'["b"].storage_root = accounts["a"].storage_root
          /\ accounts'["b"].code_hash =
               IF IsSome(accounts["a"].code_hash)
               THEN accounts["a"].code_hash ELSE Some(SHA3_EMPTY)]_vars

\* "b" has just been decoded from a record with committed storage, a nonce
\* other than its balance and uncommitted code, so a null code_hash
C10_Witness ==
  /\ last.op = "from_rlp"
  /\ accounts["a"].code_hash = None
  /\ accounts["a"].code_cache # <<>>
  /\ accounts["a"].nonce # accounts["a"].balance
  /\ accounts["a"].storage_root # SHA3_NULL_RLP
  /\ accounts["b"].storage_root = accounts["a"].storage_root
  /\ accounts["b"].nonce = accounts["a"].nonce
  /\ accounts["b"].code_hash = Some(SHA3_EMPTY)

----------------------------------------------------------------------------
(* Claims about commit_code (SpecDirty) *)

----------------------------------------------------------------------------
(* Claims about nonce and balance (SpecLedger) *)

----------------------------------------------------------------------------
(* Claims about from_rlp and commit_storage (SpecRlp, SpecStorage) *)

\* C15: the record from_rlp makes is Clean, is_dirty() is false on it, and
\* its overlay, its read cache and its code_cache are empty and its
\* code_size unknown, whatever the encoded record holds.
C15_FromRlpIsBlank ==
  /\ [](\A h \in Handles :
          LET decoded == from_rlp(rlp(accounts[h]))
          IN /\ decoded.filth = Clean
             /\ ~is_dirty(decoded)
             /\ storage_is_clean(decoded)
             /\ decoded.storage_cache = LruEmpty
             /\ decoded.code_cache = <<>>
             /\ code_size(decoded) = None)
  /\ [][last'.op = "from_rlp" =>
          /\ accounts'["b"].filth = Clean
          /\ ~is_dirty(accounts'["b"])
          /\ DOMAIN accounts'["b"].storage_changes = {}
          /\ Len(accounts'["b"].storage_cache) = 0
          /\ Len(accounts'["b"].code_cache) = 0
          /\ accounts'["b"].code_size = None]_vars

\* "b" has just been decoded from a Dirty record that holds uncommitted
\* writes, cached reads and code of known size
C15_Witness ==
  /\ last.op = "from_rlp"
  /\ accounts["a"].filth = Dirty
  /\ DOMAIN accounts["a"].storage_changes # {}
  /\ accounts["a"].storage_cache # LruEmpty
  /\ accounts["a"].code_cache # <<>>
  /\ IsSome(accounts["a"].code_size)
  /\ accounts["b"].filth = Clean
  /\ accounts["b"].storage_root = accounts["a"].storage_root

\* C16 as stated: after commit_storage the overlay is empty and every key
\* the overlay held is cached with its value.
C16_AllCommittedKeysCached ==
  [][last'.op = "commit_storage" =>
       /\ storage_is_clean(accounts'["a"])
       /\ \A k \in DOMAIN accounts["a"].storage_changes :
            cached_storage_at(accounts'["a"], k).ret
              = Some(accounts["a"].storage_changes[k])]_vars

\* C16 amended: after commit_storage the overlay is empty and storage_root()
\* is available, as it is exactly when the overlay is empty; the keys the
\* overlay held are all cached with their values when there are at most
\* STORAGE_CACHE_ITEMS of them, and otherwise the cache is full of keys the
\* overlay held, each with its value.
C16_CommittedKeysCachedUpToCapacity ==
  /\ [][last'.op = "commit_storage" =>
          LET written == accounts["a"].storage_changes
              after == accounts'["a"]
          IN /\ storage_is_clean(after)
             /\ storage_root(after) = Some(after.storage_root)
             /\ IF Cardinality(DOMAIN written) <= STORAGE_CACHE_ITEMS
                THEN \A k \in DOMAIN written :
                       cached_storage_at(after, k).ret = Some(written[k])
                ELSE /\ Len(after.storage_cache) = STORAGE_CACHE_ITEMS
                     /\ \A k \in LruKeys(after.storage_cache) :
                          /\ k \in DOMAIN written
                          /\ cached_storage_at(after, k).ret = Some(written[k])]_vars
  /\ [](storage_root(accounts["a"]) = None
          <=> DOMAIN accounts["a"].storage_changes # {})

\* commit_storage has just emptied the overlay of a record all of whose keys
\* were written, and the cache holds a non-zero value that is in the trie
C16_Witness ==
  /\ last.op = "commit_storage"
  /\ hist.written = H256
  /\ storage_is_clean(accounts["a"])
  /\ accounts["a"].storage_root # SHA3_NULL_RLP
  /\ \E k \in LruKeys(accounts["a"].storage_cache) :
       /\ LruPeek(accounts["a"].storage_cache, k) # Some(0)
       /\ LruPeek(accounts["a"].storage_cache, k) = Some(CommittedValue(accounts["a"], k))

----------------------------------------------------------------------------
(* Claims about a failing store and about reads (SpecFailing, SpecShadow) *)

\* what the trie holds for a key after a value was committed to it
TrieEntry(v) == IF v = 0 THEN None ELSE Some(Encode(v))

\* C17: when the trie fails for some keys of the overlay, commit_storage
\* still returns with an empty overlay, the trie under the new root holds the
\* overlay's value for every key it did not fail for and what it held before
\* for every other key.
C17_FailedKeysDoNotAbortCommit ==
  [][last'.op = "commit_storage_failing" =>
       LET written == accounts["a"].storage_changes
           before == TrieAt(accounts["a"].storage_root)
           after == TrieAt(accounts'["a"].storage_root)
           fail == hist'.failed
       IN /\ fail # {}
          /\ fail \subseteq DOMAIN written
          /\ storage_is_clean(accounts'["a"])
          /\ \A k \in H256 :
               TrieGet(after, k) =
                 IF k \in DOMAIN written \ fail
                 THEN TrieEntry(written[k]) ELSE TrieGet(before, k)]_vars

\* a commit over a failing store has just returned: the overlay is empty,
\* one key's value went into the trie and another key's value, which is
\* cached, did not
C17_Witness ==
  /\ last.op = "commit_storage_failing"
  /\ storage_is_clean(accounts["a"])
  /\ \E k \in H256 : CommittedValue(accounts["a"], k) # 0
  /\ \E k \in LruKeys(accounts["a"].storage_cache) :
       LruPeek(accounts["a"].storage_cache, k) # Some(CommittedValue(accounts["a"], k))

\* C18: a cached_storage_at or storage_at changes nothing but the read cache
\* of the record it is called on, and not its encoding; a record that is read
\* between its writes and commits has the overlay, the flag, the
\* storage_root and the encoding of a record given the same writes and
\* commits and never read.
C18_ReadsTouchOnlyTheCache ==
  /\ [][last'.op \in {"cached_storage_at", "storage_at"} =>
          /\ accounts' = [accounts EXCEPT
                            !["a"].storage_cache = accounts'["a"].storage_cache]
          /\ rlp(accounts'["a"]) = rlp(accounts["a"])]_vars
  /\ [](/\ accounts["a"].storage_root = accounts["b"].storage_root
        /\ accounts["a"].storage_changes = accounts["b"].storage_changes
        /\ accounts["a"].filth = accounts["b"].filth
        /\ rlp(accounts["a"]) = rlp(accounts["b"]))

\* a storage_at on the record that is read has just cached a value of a
\* committed trie, which the record that is never read has not cached
C18_Witness ==
  /\ last.op = "storage_at"
  /\ accounts["a"].storage_root # SHA3_NULL_RLP
  /\ accounts["a"].storage_root = accounts["b"].storage_root
  /\ DOMAIN accounts["a"].storage_changes # {}
  /\ accounts["a"].storage_cache # accounts["b"].storage_cache
  /\ \E k \in LruKeys(accounts["a"].storage_cache) :
       LruPeek(accounts["b"].storage_cache, k) = None

----------------------------------------------------------------------------
(* Claims about set_storage and init_code (SpecStorage, SpecDirty) *)

\* C19: set_storage(key, value) returns the record unchanged when the
\* overlay holds value for key; otherwise the overlay maps key to value
\* afterwards and every other key as before, the flag is Dirty and no other
\* field has changed.
C19_SetStorageWritesOrSkips ==
  /\ [](\A key \in H256, value \in H256 :
          LET acc == accounts["a"]
              after == set_storage(acc, key, value)
          IN IF key \in DOMAIN acc.storage_changes /\ acc.storage_changes[key] = value
             THEN after = acc
             ELSE /\ DOMAIN after.storage_changes = DOMAIN acc.storage_changes \cup {key}
                  /\ after.storage_changes[key] = value
                  /\ \A k \in DOMAIN acc.storage_changes \ {key} :
                       after.storage_changes[k] = acc.storage_changes[k]
                  /\ after.filth = Dirty
                  /\ after = [acc EXCEPT !.storage_changes = after.storage_changes,
                                         !.filth = Dirty])
  /\ [][last'.op = "set_storage" =>
          /\ is_dirty(accounts'["a"])
          /\ \E key \in H256 :
               /\ key \in DOMAIN accounts'["a"].storage_changes
               /\ \A k \in H256 \ {key} :
                    /\ k \in DOMAIN accounts'["a"].storage_changes
                         <=> k \in DOMAIN accounts["a"].storage_changes
                    /\ k \in DOMAIN accounts["a"].storage_changes =>
                         accounts'["a"].storage_changes[k] = accounts["a"].storage_changes[k]
          /\ accounts'["a"].storage_cache = accounts["a"].storage_cache
          /\ accounts'["a"].storage_root = accounts["a"].storage_root]_vars

\* a set_storage has just made a record Dirty whose overlay now shadows the
\* committed value of every key
C19_Witness ==
  /\ last.op = "set_storage"
  /\ accounts["a"].filth = Dirty
  /\ DOMAIN accounts["a"].storage_changes = H256
  /\ accounts["a"].storage_root # SHA3_NULL_RLP
  /\ \A k \in H256 : accounts["a"].storage_changes[k] # CommittedValue(accounts["a"], k)

\* C20: init_code panics and changes nothing exactly when code_hash is set,
\* as it is on every record new_basic or from_rlp makes; on a record whose
\* code_hash is null it stores the bytes, sets code_size to their length and
\* the flag to Dirty and leaves code_hash null, and only a commit_code, a
\* merge_with or a from_rlp makes a null code_hash non-null.
C20_InitCodeOnlyOnNullHash ==
  /\ [](/\ \A balance \in U256, nonce \in U256 :
             ~init_code_ok(new_basic(balance, nonce))
        /\ \A h \in Handles :
             /\ ~init_code_ok(from_rlp(rlp(accounts[h])))
             /\ init_code_ok(accounts[h]) <=> accounts[h].code_hash = None
             /\ \A bytes \in Codes :
                  init_code(accounts[h], bytes)
                    = [accounts[h] EXCEPT !.code_cache = bytes,
                                          !.code_size = Some(Len(bytes)),
                                          !.filth = Dirty])
  /\ [][last'.op = "init_code" =>
          IF last'.ok
          THEN /\ accounts["a"].code_hash = None
               /\ accounts'["a"].code_hash = None
               /\ accounts'["a"].filth = Dirty
               /\ accounts'["a"].code_size = Some(Len(accounts'["a"].code_cache))
               /\ accounts' = [accounts EXCEPT
                                 !["a"].code_cache = accounts'["a"].code_cache,
                                 !["a"].code_size = accounts'["a"].code_size,
                                 !["a"].filth = Dirty]
          ELSE /\ IsSome(accounts["a"].code_hash)
               /\ accounts' = accounts]_vars
  /\ [][(accounts["a"].code_hash = None /\ IsSome(accounts'["a"].code_hash)) =>
          last'.op \in {"commit_code", "merge_with", "from_rlp"}]_vars

\* init_code has just stored new code on a record after other code was
\* committed to the code store: its code_hash is null
C20_Witness ==
  /\ last.op = "init_code"
  /\ last.ok
  /\ accounts["a"].code_hash = None
  /\ accounts["a"].code_cache # <<>>
  /\ accounts["a"].code_size = Some(Len(accounts["a"].code_cache))
  /\ accounts["a"].filth = Dirty
  /\ codeDb # {}
  /\ accounts["a"].code_cache \notin codeDb

----------------------------------------------------------------------------
(* Claims about reset_code, the clones and the code accessors (SpecDirty,
   SpecPair, SpecCode) *)

\* C21: reset_code always returns; it makes code_hash null, code_cache the
\* bytes, code_size their length and the flag Dirty and changes nothing
\* else; a commit_code after it makes code_hash the hash of the bytes, which
\* is not the hash the record had for other bytes.
C21_ResetCodeReplacesCode ==
  /\ [](\A bytes \in Codes :
          LET acc == accounts["a"]
              reset == reset_code(acc, bytes)
              committed == commit_code(reset, codeDb).acc
          IN /\ reset = [acc EXCEPT !.code_hash = None,
                                    !.code_cache = bytes,
                                    !.code_size = Some(Len(bytes)),
                                    !.filth = Dirty]
             /\ committed.code_hash = Some(Sha3(bytes))
             /\ committed.code_size = Some(Len(bytes))
             /\ \A old \in Codes \ {bytes} :
                  acc.code_hash = Some(Sha3(old)) =>
                    committed.code_hash # acc.code_hash)
  /\ [][last'.op = "reset_code" =>
          /\ last'.ok
          /\ accounts'["a"].code_hash = None
          /\ accounts'["a"].code_size = Some(Len(accounts'["a"].code_cache))
          /\ accounts'["a"].filth = Dirty
          /\ accounts' = [accounts EXCEPT
                            !["a"].code_hash = None,
                            !["a"].code_cache = accounts'["a"].code_cache,
                            !["a"].code_size = accounts'["a"].code_size,
                            !["a"].filth = Dirty]]_vars

\* reset_code has just replaced committed code by other bytes on a record
\* that is read back from the code store
C21_Witness ==
  /\ last.op = "reset_code"
  /\ accounts["a"].code_hash = None
  /\ accounts["a"].code_cache # <<>>
  /\ accounts["a"].code_cache \notin codeDb
  /\ accounts["a"].code_size = Some(Len(accounts["a"].code_cache))
  /\ accounts["a"].filth = Dirty
  /\ Cardinality(codeDb) = 1

\* C22: clone_basic has the balance, nonce, storage_root, code_hash and
\* address hash of the original with an empty overlay, an empty read cache
\* and no code bytes; clone_dirty is clone_basic with the original's overlay
\* and code bytes; clone_all is clone_dirty with the original's read cache
\* and equals the original; a clone step leaves the original as it was, and
\* every later step changes at most one of the two records.
C22_ClonesAreIndependentCopies ==
  /\ [](\A h \in Handles :
          LET acc == accounts[h]
              basic == clone_basic(acc)
              dirty == clone_dirty(acc)
              all == clone_all(acc)
          IN /\ basic.balance = acc.balance
             /\ basic.nonce = acc.nonce
             /\ basic.storage_root = acc.storage_root
             /\ basic.code_hash = acc.code_hash
             /\ basic.address_hash = acc.address_hash
             /\ basic.storage_changes = <<>>
             /\ basic.storage_cache = LruEmpty
             /\ basic.code_cache = <<>>
             /\ dirty = [basic EXCEPT !.storage_changes = acc.storage_changes,
                                      !.code_cache = acc.code_cache]
             /\ all = [dirty EXCEPT !.storage_cache = acc.storage_cache]
             /\ all = acc)
  /\ [][/\ accounts'["a"] # accounts["a"] => accounts'["b"] = accounts["b"]
        /\ last'.op = "clone_basic" =>
             accounts' = [accounts EXCEPT !["b"] = clone_basic(accounts["a"])]
        /\ last'.op = "clone_dirty" =>
             accounts' = [accounts EXCEPT !["b"] = clone_dirty(accounts["a"])]
        /\ last'.op = "clone_all" =>
             accounts' = [accounts EXCEPT !["b"] = clone_all(accounts["a"])]]_vars

\* "b" holds code bytes and a read cache entry, which it can only have from
\* a clone of "a", and a write to one of the two has made their overlays
\* differ
C22_Witness ==
  /\ last.op = "set_storage"
  /\ accounts["b"].code_cache # <<>>
  /\ accounts["b"].code_cache = accounts["a"].code_cache
  /\ accounts["b"].storage_cache # LruEmpty
  /\ accounts["b"].storage_changes # accounts["a"].storage_changes
  /\ accounts["a"].storage_changes # <<>>

\* C23: cache_code and cache_code_size always return a boolean, for every
\* record and every store: cache_code returns true exactly when is_cached()
\* holds afterwards, cache_code_size returns true exactly when code_size()
\* is Some afterwards, and when either returns false the store has nothing
\* to give for code_hash and the record is as it was; neither changes the
\* store.
C23_CacheCodeReportsItsOutcome ==
  /\ [](\A db \in SUBSET Codes :
          LET acc == accounts["a"]
              fetched == cache_code(acc, db)
              sized == cache_code_size(acc, db)
              missing == \/ acc.code_hash = None
                         \/ acc.code_hash = Some(SHA3_EMPTY)
                         \/ DbGet(db, Unwrap(acc.code_hash)) = None
          IN /\ fetched.ret \in BOOLEAN
             /\ sized.ret \in BOOLEAN
             /\ fetched.ret <=> is_cached(fetched.acc)
             /\ sized.ret <=> IsSome(code_size(sized.acc))
             /\ ~fetched.ret => fetched.acc = acc /\ missing
             /\ ~sized.ret => sized.acc = acc /\ missing)
  /\ [][/\ last'.op = "cache_code" =>
             /\ last'.ok <=> is_cached(accounts'["a"])
             /\ ~last'.ok => accounts' = accounts
             /\ codeDb' = codeDb
        /\ last'.op = "cache_code_size" =>
             /\ last'.ok <=> IsSome(code_size(accounts'["a"]))
             /\ ~last'.ok => accounts' = accounts
             /\ codeDb' = codeDb]_vars

\* cache_code has just returned false on a record with a code_hash that the
\* store it was committed to does hold: the store given had no entry
C23_Witness ==
  /\ last.op = "cache_code"
  /\ ~last.ok
  /\ IsSome(accounts["a"].code_hash)
  /\ accounts["a"].code_hash # Some(SHA3_EMPTY)
  /\ IsSome(DbGet(codeDb, Unwrap(accounts["a"].code_hash)))
  /\ accounts["a"].code_cache = <<>>
  /\ ~is_cached(accounts["a"])

\* C24: in every reachable state is_cached() is true exactly when code()
\* returns Some, whatever code_hash (null, the empty-code hash, another
\* hash) and code_cache (empty, non-empty) are.
C24_CachedIffCodeIsSome ==
  \A h \in Handles : is_cached(accounts[h]) <=> IsSome(code(accounts[h]))

\* C25: in every reachable state, when code() returns Some(bytes) and
\* code_size() returns Some(n), n is the length of bytes.
C25_CodeSizeIsLengthOfCode ==
  \A h \in Handles :
    IsSome(code(accounts[h])) /\ IsSome(code_size(accounts[h])) =>
      Unwrap(code_size(accounts[h])) = Len(Unwrap(code(accounts[h])))

----------------------------------------------------------------------------
(* Claims about the snapshot watcher (SpecWatcher) *)

\* the imported numbers n - history that the claim counts: the client knows
\* the hash, n >= period + history, and period divides n - history
Divides(d, x) == \E k \in 0..x : k * d = x

SnapshotCandidates(imported) ==
  {n - watcher.history :
     n \in {m \in U64 : /\ \E i \in DOMAIN imported :
                             to_number(chain, imported[i]) = Some(m)
                        /\ m >= watcher.period + watcher.history
                        /\ Divides(watcher.period, m - watcher.history)}}

\* the messages a call of new_blocks puts on a connected channel
Requested(imported, overflow_checks) ==
  new_blocks(watcher, chain, [connected |-> TRUE, queue |-> <<>>],
             imported, overflow_checks).queue

\* C26: a call of new_blocks requests at most one snapshot: none when the
\* oracle reports major syncing or when no imported block number n has
\* n >= period + history with n - history divisible by period, and otherwise
\* one at the largest such n - history.
C26_NewBlocksRequestsHighestDue ==
  \A imported \in ImportedLists, overflow_checks \in BOOLEAN :
    LET due == SnapshotCandidates(imported)
        sent == Requested(imported, overflow_checks)
    IN /\ Len(sent) <= 1
       /\ is_major_syncing(chain) \/ due = {} => sent = <<>>
       /\ ~is_major_syncing(chain) /\ due # {} =>
            sent = <<TakeSnapshot(CHOOSE x \in due : \A y \in due : y <= x)>>

====
